---- MODULE Spec2Model ----
(***************************************************************************)
(* The validator combinators of src/src/validators.ts (record, either,     *)
(* string, number, set, maybe, listOf, setOf, always) and the guard        *)
(* isIterable as operators over a model of JavaScript values, and a state  *)
(* machine that constructs one of them and invokes it, once and then again *)
(* and again, keeping the outcome of the latest invocation and a record of *)
(* the first.                                                              *)
(***************************************************************************)
EXTENDS Integers, Sequences, FiniteSets, TLC

(***************************************************************************)
(* JavaScript values.  Every value is a record whose field k is its kind.  *)
(* Arrays, sets, plain objects and functions are reference values: ref     *)
(* says who allocated the object (RefFresh: the validator invocation       *)
(* itself; RefCaller: the caller, as part of the input; RefConfig: the     *)
(* code that built the validator).  Within the caller's and within the     *)
(* configuration's objects equal content means the same object.            *)
(*   array  v: the elements, in index order                                *)
(*   set    v: the members, in insertion order, without duplicates         *)
(*   object v: the own enumerable properties [n |-> name, v |-> value],    *)
(*             in property order (what Object.keys returns)                *)
(***************************************************************************)
RefFresh == "fresh"
RefCaller == "caller"
RefConfig == "config"

Undefined == [k |-> "undefined"]
Null == [k |-> "null"]
Bool(b) == [k |-> "boolean", v |-> b]
Num(n) == [k |-> "number", v |-> n]
NaN == [k |-> "nan"]
Str(s) == [k |-> "string", v |-> s]
Arr(ref, xs) == [k |-> "array", ref |-> ref, v |-> xs]
SetV(ref, xs) == [k |-> "set", ref |-> ref, v |-> xs]
Obj(ref, fs) == [k |-> "object", ref |-> ref, v |-> fs]
Fn(name) == [k |-> "function", ref |-> RefConfig, v |-> name]
Prop(name, value) == [n |-> name, v |-> value]

\* The outcome of an invocation that throws instead of returning a value.
TypeError == [k |-> "TypeError"]
Raised(r) == r = TypeError

IsReference(x) == x.k \in {"array", "set", "object", "function"}

\* typeof value
TypeOf(x) ==
  CASE x.k \in {"number", "nan"} -> "number"
    [] x.k \in {"undefined", "boolean", "string", "function"} -> x.k
    [] OTHER -> "object"

\* Array.isArray(value)
IsArray(x) == x.k = "array"

\* The decimal names of the array indices 0..9.
Digits == <<"0", "1", "2", "3", "4", "5", "6", "7", "8", "9">>
IndexName(i) == Digits[i + 1]
IsIndexName(name) == \E i \in 1..Len(Digits) : Digits[i] = name
IndexOf(name) == CHOOSE i \in 1..Len(Digits) : Digits[i] = name

\* The members every plain object inherits from Object.prototype.
ObjectPrototype ==
  {"constructor", "hasOwnProperty", "isPrototypeOf", "propertyIsEnumerable",
   "toLocaleString", "toString", "valueOf"}

HasOwn(o, name) == \E i \in 1..Len(o.v) : o.v[i].n = name
Own(o, name) == o.v[CHOOSE i \in 1..Len(o.v) : o.v[i].n = name].v

\* o[name] on a plain object: the own property, else the inherited one.
Get(o, name) ==
  IF HasOwn(o, name) THEN Own(o, name)
  ELSE IF name \in ObjectPrototype THEN Fn(name)
  ELSE Undefined

\* Where a new property goes in property order: integer-like names come
\* first, ascending; the other names follow in creation order.
InsertAt(fs, name) ==
  IF IsIndexName(name)
  THEN 1 + Cardinality({i \in 1..Len(fs) :
                          IsIndexName(fs[i].n) /\ IndexOf(fs[i].n) < IndexOf(name)})
  ELSE Len(fs) + 1

\* o[name] = value on a plain object, as the list of its properties.
Put(fs, name, value) ==
  IF \E i \in 1..Len(fs) : fs[i].n = name
  THEN [i \in 1..Len(fs) |-> IF fs[i].n = name THEN Prop(name, value) ELSE fs[i]]
  ELSE LET at == InsertAt(fs, name)
       IN  SubSeq(fs, 1, at - 1) \o <<Prop(name, value)>> \o SubSeq(fs, at, Len(fs))

RECURSIVE PutAll(_, _)
PutAll(fs, props) ==
  IF props = <<>> THEN fs
  ELSE PutAll(Put(fs, Head(props).n, Head(props).v), Tail(props))

\* An object literal { n1: v1, n2: v2, ... } written in the order of props.
ObjectLiteral(ref, props) == Obj(ref, PutAll(<<>>, props))

\* Object.keys(o)
ObjectKeys(o) == [i \in 1..Len(o.v) |-> o.v[i].n]

\* { ...value }: a new plain object with the own enumerable properties of
\* value (none for null, for a set; the indices for an array).
Spread(x) ==
  CASE x.k = "object" -> Obj(RefFresh, x.v)
    [] x.k = "array" ->
         Obj(RefFresh, [i \in 1..Len(x.v) |-> Prop(IndexName(i - 1), x.v[i])])
    [] OTHER -> Obj(RefFresh, <<>>)

\* SameValueZero, the equality of Set.prototype.has and add: NaN equals NaN,
\* a reference value equals only itself (two objects an invocation allocates
\* are never the same object).
SameValueZero(a, b) ==
  IF IsReference(a) /\ a.ref = RefFresh THEN FALSE ELSE a = b

SetHas(members, x) == \E i \in 1..Len(members) : SameValueZero(members[i], x)
SetAdd(members, x) == IF SetHas(members, x) THEN members ELSE Append(members, x)

RECURSIVE AddAll(_, _)
AddAll(members, xs) ==
  IF xs = <<>> THEN members ELSE AddAll(SetAdd(members, Head(xs)), Tail(xs))

\* new Set(iterable) over the elements xs
NewSet(ref, xs) == SetV(ref, AddAll(<<>>, xs))

(***************************************************************************)
(* Validators.  A validator is the closure a factory returns: a record     *)
(* whose field f names the factory and whose other fields are the values   *)
(* the closure captured.  Run(validator, value) is one invocation:         *)
(*   r      the value returned, or TypeError when the invocation throws    *)
(*   calls  the calls the invocation itself made to the validators it      *)
(*          holds, in the order it made them                               *)
(***************************************************************************)
IsClosure(x) == "f" \in DOMAIN x

RECURSIVE Run(_, _)

\* validator(value), as the caller sees it.
Apply(validator, value) == Run(validator, value).r

Ret(r, calls) == [r |-> r, calls |-> calls]
Call(callee, arg) == [callee |-> callee, arg |-> arg]

\* A throw ends the loop that makes the calls: how many of the calls with
\* these outcomes are made.
AnyRaised(outcomes) == \E i \in 1..Len(outcomes) : Raised(outcomes[i])
Made(outcomes) ==
  IF AnyRaised(outcomes)
  THEN CHOOSE i \in 1..Len(outcomes) :
         Raised(outcomes[i]) /\ \A j \in 1..(i - 1) : ~Raised(outcomes[j])
  ELSE Len(outcomes)
CallsMade(callees, args, outcomes) ==
  [i \in 1..Made(outcomes) |-> Call(callees[i], args[i])]

\* A record validator that builds its output on the copy of the input
\* instead of on an empty object.
RecordValidate_OnSource(spec, maybeValues) ==
  LET source == IF TypeOf(maybeValues) = "object"
                THEN Spread(maybeValues)
                ELSE Obj(RefFresh, <<>>)
      names == ObjectKeys(spec)
      callees == [i \in 1..Len(names) |-> Get(spec, names[i])]
      args == [i \in 1..Len(names) |-> Get(source, names[i])]
      outcomes == [i \in 1..Len(names) |-> Apply(callees[i], args[i])]
      output == PutAll(source.v, [i \in 1..Len(names) |-> Prop(names[i], outcomes[i])])
  IN  Ret(IF AnyRaised(outcomes) THEN TypeError ELSE Obj(RefFresh, output),
          CallsMade(callees, args, outcomes))

\* A record validator that validates only the fields the input has and
\* leaves the others undefined.
RecordValidate_SkipsAbsent(spec, maybeValues) ==
  LET source == IF TypeOf(maybeValues) = "object"
                THEN Spread(maybeValues)
                ELSE Obj(RefFresh, <<>>)
      names == SelectSeq(ObjectKeys(spec), LAMBDA name : HasOwn(source, name))
      callees == [i \in 1..Len(names) |-> Get(spec, names[i])]
      args == [i \in 1..Len(names) |-> Get(source, names[i])]
      outcomes == [i \in 1..Len(names) |-> Apply(callees[i], args[i])]
      absent == [i \in 1..Len(spec.v) |-> Prop(spec.v[i].n, Undefined)]
      output == PutAll(PutAll(<<>>, absent),
                       [i \in 1..Len(names) |-> Prop(names[i], outcomes[i])])
  IN  Ret(IF AnyRaised(outcomes) THEN TypeError ELSE Obj(RefFresh, output),
          CallsMade(callees, args, outcomes))

\* record(spec): validate(maybeValues)
RecordValidate(spec, maybeValues) ==
  LET source == IF TypeOf(maybeValues) = "object"
                THEN Spread(maybeValues)
                ELSE Obj(RefFresh, <<>>)
      names == ObjectKeys(spec)
      callees == [i \in 1..Len(names) |-> Get(spec, names[i])]
      args == [i \in 1..Len(names) |-> Get(source, names[i])]
      outcomes == [i \in 1..Len(names) |-> Apply(callees[i], args[i])]
      output == PutAll(<<>>, [i \in 1..Len(names) |-> Prop(names[i], outcomes[i])])
  IN  Ret(IF AnyRaised(outcomes) THEN TypeError ELSE Obj(RefFresh, output),
          CallsMade(callees, args, outcomes))

\* An either validator that also accepts a boolean whose text is allowed.
EitherValidate_Coercing(validEntries, initial, value) ==
  LET text == IF value.k = "boolean"
              THEN Str(IF value.v THEN "true" ELSE "false")
              ELSE value
  IN  Ret(IF SetHas(validEntries.v, value) \/ SetHas(validEntries.v, text)
          THEN value ELSE initial, <<>>)

\* either(valid): validate(value)
EitherValidate(validEntries, initial, value) ==
  Ret(IF SetHas(validEntries.v, value) THEN value ELSE initial, <<>>)

\* string(initial): validate(value)
StringValidate(initial, value) ==
  Ret(IF TypeOf(value) = "string" THEN value ELSE initial, <<>>)

\* A number validator that rejects NaN.
NumberValidate_RejectsNaN(initial, value) ==
  Ret(IF value.k = "number" THEN value ELSE initial, <<>>)

\* number(initial): validate(value)
NumberValidate(initial, value) ==
  Ret(IF TypeOf(value) = "number" THEN value ELSE initial, <<>>)

\* set(itemCheck): checkSet(values)
CheckSet(itemCheck, values) ==
  IF IsArray(values)
  THEN LET callees == [i \in 1..Len(values.v) |-> itemCheck]
           outcomes == [i \in 1..Len(values.v) |-> Apply(itemCheck, values.v[i])]
       IN  Ret(IF AnyRaised(outcomes) THEN TypeError
               ELSE Arr(RefFresh, AddAll(<<>>, outcomes)),
               CallsMade(callees, values.v, outcomes))
  ELSE Ret(Arr(RefFresh, <<>>), <<>>)

\* A maybe validator that short-circuits undefined alone (value === undefined).
ProxyMaybe_UndefinedOnly(validate, value) ==
  IF value.k = "undefined"
  THEN Ret(Undefined, <<>>)
  ELSE Ret(Apply(validate, value), <<Call(validate, value)>>)

\* maybe(validate): proxyMaybe(value)
ProxyMaybe(validate, value) ==
  IF value.k \in {"null", "undefined"}
  THEN Ret(Undefined, <<>>)
  ELSE Ret(Apply(validate, value), <<Call(validate, value)>>)

\* A list validator that leaves out the elements cast turns into undefined.
ToList_DropsUndefined(cast, value) ==
  IF IsArray(value)
  THEN LET callees == [i \in 1..Len(value.v) |-> cast]
           outcomes == [i \in 1..Len(value.v) |-> Apply(cast, value.v[i])]
       IN  Ret(IF AnyRaised(outcomes) THEN TypeError
               ELSE Arr(RefFresh, SelectSeq(outcomes, LAMBDA r : r # Undefined)),
               CallsMade(callees, value.v, outcomes))
  ELSE Ret(Arr(RefFresh, <<>>), <<>>)

\* A list validator that makes a one-element list of what is no array.
ToList_WrapsOther(cast, value) ==
  IF IsArray(value)
  THEN LET callees == [i \in 1..Len(value.v) |-> cast]
           outcomes == [i \in 1..Len(value.v) |-> Apply(cast, value.v[i])]
       IN  Ret(IF AnyRaised(outcomes) THEN TypeError ELSE Arr(RefFresh, outcomes),
               CallsMade(callees, value.v, outcomes))
  ELSE Ret(IF Raised(Apply(cast, value)) THEN TypeError
           ELSE Arr(RefFresh, <<Apply(cast, value)>>),
           <<Call(cast, value)>>)

\* A list validator that keeps only the elements cast returns as they are
\* (value.filter in the place of value.map).
ToList_FiltersChanged(cast, value) ==
  IF IsArray(value)
  THEN LET callees == [i \in 1..Len(value.v) |-> cast]
           outcomes == [i \in 1..Len(value.v) |-> Apply(cast, value.v[i])]
       IN  Ret(IF AnyRaised(outcomes) THEN TypeError
               ELSE Arr(RefFresh, SelectSeq(value.v, LAMBDA x : Apply(cast, x) = x)),
               CallsMade(callees, value.v, outcomes))
  ELSE Ret(Arr(RefFresh, <<>>), <<>>)

\* listOf(cast): toList(value)
ToList(cast, value) ==
  IF IsArray(value)
  THEN LET callees == [i \in 1..Len(value.v) |-> cast]
           outcomes == [i \in 1..Len(value.v) |-> Apply(cast, value.v[i])]
       IN  Ret(IF AnyRaised(outcomes) THEN TypeError ELSE Arr(RefFresh, outcomes),
               CallsMade(callees, value.v, outcomes))
  ELSE Ret(Arr(RefFresh, <<>>), <<>>)

\* valid.has(v), for whatever setOf was given as valid: a Set answers, and
\* anything else (a validator function has no method has) throws.
Has(valid, v) ==
  IF ~IsClosure(valid) /\ valid.k = "set" THEN Bool(SetHas(valid.v, v)) ELSE TypeError

\* A set validator that never puts undefined into the set, as the README
\* describes setOf.
ToSet_DropsUndefined(valid, value) ==
  IF IsArray(value)
  THEN LET answers == [i \in 1..Len(value.v) |-> Has(valid, value.v[i])]
           kept == SelectSeq(value.v,
                             LAMBDA v : Has(valid, v) = Bool(TRUE) /\ v # Undefined)
       IN  Ret(IF AnyRaised(answers) THEN TypeError
               ELSE SetV(RefFresh, AddAll(<<>>, kept)), <<>>)
  ELSE Ret(SetV(RefFresh, <<>>), <<>>)

\* A set validator guarded by typeof value === "object" instead of
\* Array.isArray: it iterates a set, and for...of throws on null and on a
\* plain object, which are not iterable.
ToSet_TypeofGuard(valid, value) ==
  IF TypeOf(value) = "object"
  THEN IF value.k \in {"array", "set"}
       THEN LET answers == [i \in 1..Len(value.v) |-> Has(valid, value.v[i])]
                kept == SelectSeq(value.v, LAMBDA v : Has(valid, v) = Bool(TRUE))
            IN  Ret(IF AnyRaised(answers) THEN TypeError
                    ELSE SetV(RefFresh, AddAll(<<>>, kept)), <<>>)
       ELSE Ret(TypeError, <<>>)
  ELSE Ret(SetV(RefFresh, <<>>), <<>>)

\* setOf(valid): toSet(value)
ToSet(valid, value) ==
  IF IsArray(value)
  THEN LET answers == [i \in 1..Len(value.v) |-> Has(valid, value.v[i])]
           kept == SelectSeq(value.v, LAMBDA v : Has(valid, v) = Bool(TRUE))
       IN  Ret(IF AnyRaised(answers) THEN TypeError
               ELSE SetV(RefFresh, AddAll(<<>>, kept)), <<>>)
  ELSE Ret(SetV(RefFresh, <<>>), <<>>)

\* always(value): toValue(_)
ToValue(value, ignored) == Ret(value, <<>>)

\* Symbol.iterator in value: arrays and sets have the member, plain objects
\* have not, and the operator in throws when value is not an object (null).
HasIterator(value) ==
  IF value.k = "null" THEN TypeError ELSE Bool(value.k \in {"array", "set"})

\* isIterable(value) as src/unnamed/part_001 has it: value != null first.
IsIterableNullChecked(value) ==
  Ret(IF value.k \notin {"null", "undefined"} /\ TypeOf(value) = "object"
      THEN HasIterator(value) ELSE Bool(FALSE), <<>>)

\* isIterable(value) as src/unnamed/part_002 has it.
IsIterable(value) ==
  Ret(IF TypeOf(value) = "object" THEN HasIterator(value) ELSE Bool(FALSE), <<>>)

\* The factories: what each closure captures when it is constructed.
record(spec) == [f |-> "record", spec |-> spec]
either(valid) == [f |-> "either", validEntries |-> NewSet(RefConfig, valid), initial |-> valid[1]]
string(initial) == [f |-> "string", initial |-> initial]
number(initial) == [f |-> "number", initial |-> initial]
set(itemCheck) == [f |-> "set", itemCheck |-> itemCheck]
maybe(validate) == [f |-> "maybe", validate |-> validate]
listOf(cast) == [f |-> "listOf", cast |-> cast]
setOf(valid) == [f |-> "setOf", valid |-> valid]
always(value) == [f |-> "always", value |-> value]
\* The guard is no closure of a factory: the repository holds two copies of
\* it, and copy says which one was built.
isIterable(copy) == [f |-> "isIterable", copy |-> copy]

Run(validator, value) ==
  CASE validator.f = "record" -> RecordValidate(validator.spec, value)
    [] validator.f = "either" ->
         EitherValidate(validator.validEntries, validator.initial, value)
    [] validator.f = "string" -> StringValidate(validator.initial, value)
    [] validator.f = "number" -> NumberValidate(validator.initial, value)
    [] validator.f = "set" -> CheckSet(validator.itemCheck, value)
    [] validator.f = "maybe" -> ProxyMaybe(validator.validate, value)
    [] validator.f = "listOf" -> ToList(validator.cast, value)
    [] validator.f = "setOf" -> ToSet(validator.valid, value)
    [] validator.f = "always" -> ToValue(validator.value, value)
    [] validator.f = "isIterable" ->
         IF validator.copy = "part_001"
         THEN IsIterableNullChecked(value) ELSE IsIterable(value)

\* An invocation whose record validators store the validated fields into
\* the object they were given, when they were given one.
Assigns_InPlace(validator, value, run) ==
  CASE validator.f = "record" ->
         IF Len(run.calls) > 1 \/ (Len(run.calls) = 1 /\ ~Raised(run.r))
         THEN {IF value.k = "object" THEN value.ref ELSE RefFresh} ELSE {}
    [] validator.f \in {"set", "listOf"} ->
         IF Len(run.calls) > 1 \/ (Len(run.calls) = 1 /\ ~Raised(run.r))
         THEN {RefFresh} ELSE {}
    [] validator.f = "setOf" ->
         IF IsArray(value)
              /\ \E i \in 1..Len(value.v) : Has(validator.valid, value.v[i]) = Bool(TRUE)
         THEN {RefFresh} ELSE {}
    [] OTHER -> {}

\* The objects one invocation stores into, by who allocated them, given its
\* run: the statements output[name] = ..., out.add(...) and values.add(...)
\* and the filling of the array map returns all store into an object the
\* invocation itself allocated, and only once the call or the test before
\* them has returned (of the calls made only the last can have thrown).  No
\* other statement of a closure stores anything.
Assigns(validator, value, run) ==
  CASE validator.f \in {"record", "set", "listOf"} ->
         IF Len(run.calls) > 1 \/ (Len(run.calls) = 1 /\ ~Raised(run.r))
         THEN {RefFresh} ELSE {}
    [] validator.f = "setOf" ->
         IF IsArray(value)
              /\ \E i \in 1..Len(value.v) : Has(validator.valid, value.v[i]) = Bool(TRUE)
         THEN {RefFresh} ELSE {}
    [] OTHER -> {}

\* The same, with what the validators the invocation calls store into.
RECURSIVE WritesOf(_, _, _)
WritesOf(validator, value, run) ==
  Assigns(validator, value, run)
    \cup UNION {WritesOf(run.calls[i].callee, run.calls[i].arg,
                          Run(run.calls[i].callee, run.calls[i].arg)) :
                 i \in 1..Len(run.calls)}

\* A closure of either that adds every value it is given to the allowed ones.
After_Learns(validator, value) ==
  IF validator.f = "either"
  THEN [validator EXCEPT !.validEntries = SetV(RefConfig, SetAdd(@.v, value))]
  ELSE validator

\* The closure after an invocation: what it captured (valid, validEntries,
\* initial, spec, itemCheck, validate, cast, value) is never assigned to,
\* and of the sets it captured only has is called.
After(validator, value) == validator

(***************************************************************************)
(* The bounded universe of inputs and of validators.                       *)
(***************************************************************************)
\* The longest array or set given as input, and the longest list of allowed
\* values given to either.
MaxLen == 2
\* The most fields a record spec declares.
MaxFields == 2

SeqsUpTo(S, n) == UNION {[1..m -> S] : m \in 0..n}
NoDuplicates(xs) == \A i, j \in 1..Len(xs) : xs[i] = xs[j] => i = j

\* An object of the configuration and an object of the caller, equal in
\* content and distinct in identity.
ConfigObject == Obj(RefConfig, <<>>)
CallerObject == Obj(RefCaller, <<>>)

Primitives ==
  {Undefined, Null, Bool(TRUE), Bool(FALSE), Num(1), Num(2), NaN,
   Str(""), Str("a"), Str("b"), Str("1"), Str("false")}

\* What the arrays given as input hold.
\* An array held by an array or by a field of an object.
NestedArray == Arr(RefCaller, <<Str("a")>>)
Elements == {Undefined, Null, Num(1), Str("a"), Str("b"), CallerObject, NestedArray}
Arrays == {Arr(RefCaller, xs) : xs \in SeqsUpTo(Elements, MaxLen)}

\* The sets given as input.
SetMembers == {Undefined, Num(1), Str("a")}
Sets == {SetV(RefCaller, xs) : xs \in {ys \in SeqsUpTo(SetMembers, MaxLen) : NoDuplicates(ys)}}

\* The plain objects given as input: up to two own fields, of these names
\* and values (of PairedFieldValues when there are two).  PartialInner is a
\* nested object that lacks field b.
PartialInner == Obj(RefCaller, <<Prop("a", Num(2))>>)
InputNames == <<"b", "bar", "constructor">>
InputFieldValues == {Null, Num(1), Str("a"), PartialInner, NestedArray}
PairedFieldValues == {Num(1), Str("a"), PartialInner}
Objects ==
  {CallerObject}
  \cup {ObjectLiteral(RefCaller, <<Prop(InputNames[i], v)>>) :
          i \in 1..Len(InputNames), v \in InputFieldValues}
  \cup {ObjectLiteral(RefCaller, <<Prop(InputNames[ij[1]], vw[1]), Prop(InputNames[ij[2]], vw[2])>>) :
          ij \in {p \in (1..Len(InputNames)) \X (1..Len(InputNames)) : p[1] < p[2]},
          vw \in PairedFieldValues \X PairedFieldValues}

\* The inputs of the validators that look at their input as a whole
\* (either, string, number, always), of those that look into an array (set,
\* maybe, listOf, setOf), and of record.
LeafInputs ==
  Primitives
    \cup {CallerObject, ConfigObject, PartialInner, Fn("f"),
          Arr(RefCaller, <<>>), NestedArray, SetV(RefCaller, <<Num(1)>>)}
Inputs == LeafInputs \cup Arrays \cup Sets
SmallArrays == {Arr(RefCaller, xs) : xs \in SeqsUpTo({Num(1), Str("a")}, MaxLen)}
RecordInputs ==
  Primitives \cup SmallArrays \cup Objects
    \cup {SetV(RefCaller, <<>>), SetV(RefCaller, <<Num(1)>>), Fn("f")}

\* The lists of allowed values given to either: non-empty, as its type asks.
AllowedValues == {Undefined, Str("a"), Str("false"), Bool(FALSE), NaN, ConfigObject}
AllowedLists == SeqsUpTo(AllowedValues, MaxLen) \ {<<>>}

\* The record validator of the nesting test: { a: number(1), b: string("A") }.
Inner == record(ObjectLiteral(RefConfig, <<Prop("a", number(Num(1))), Prop("b", string(Str("A")))>>))

\* What setOf is given: a Set of allowed values, as its signature asks, or
\* an element validator, as the README and the tests give it.
AllowedSets ==
  {NewSet(RefConfig, <<>>), NewSet(RefConfig, <<Str("a"), Str("b")>>),
   NewSet(RefConfig, <<Undefined, Str("a")>>), NewSet(RefConfig, <<Num(1), ConfigObject>>)}
ElementValidators ==
  {either(<<Undefined, Str("a"), Str("b")>>), string(Str("default")),
   number(Undefined), number(NaN), number(Num(2))}

Leaves ==
  {number(d) : d \in {Undefined, NaN, Num(2)}}
  \cup {string(d) : d \in {Undefined, Str("default")}}
  \cup {either(A) : A \in AllowedLists}
  \cup {always(v) : v \in {Undefined, Num(1), ConfigObject}}
  \cup {setOf(valid) : valid \in AllowedSets \cup ElementValidators}

\* The validators given to maybe, listOf and set.
Wrapped ==
  ElementValidators
  \cup {Inner, always(ConfigObject), listOf(number(Undefined)),
        setOf(string(Str("foo"))), setOf(NewSet(RefConfig, <<Str("a"), Str("b")>>))}

\* The record specs: up to MaxFields fields, declared in any order, of
\* these names and validators.
SpecNames == {"b", "0", "constructor"}
FieldValidators ==
  {number(Num(2)), maybe(string(Str("d"))), Inner, setOf(string(Str("foo"))),
   setOf(NewSet(RefConfig, <<Str("a"), Str("b")>>))}
Declarations ==
  {ps \in SeqsUpTo({Prop(n, v) : n \in SpecNames, v \in FieldValidators}, MaxFields) :
     \A i, j \in 1..Len(ps) : ps[i].n = ps[j].n => i = j}
Specs == {ObjectLiteral(RefConfig, ps) : ps \in Declarations}

Validators ==
  Leaves
  \cup {maybe(v) : v \in Wrapped}
  \cup {listOf(v) : v \in Wrapped}
  \cup {set(v) : v \in Wrapped}
  \cup {record(spec) : spec \in Specs}

\* The guard isIterable, as either of its two copies.
Guards == {isIterable("part_001"), isIterable("part_002")}

(***************************************************************************)
(* The state machine: a function is constructed (Init), invoked on an      *)
(* input, and invoked again any number of times; outcome is what the       *)
(* latest invocation returned or threw.                                    *)
(***************************************************************************)
\*   validator  the function that was constructed, as its closure
\*   declared   the field names of a record validator's spec, in the order
\*              in which the spec's object literal declares them
\*   input, outcome, calls   the latest invocation: its argument, what it
\*              returned or threw, and the calls it made, in order
\*   written    who allocated the objects the latest invocation stored into
\*   first      the first invocation: the closure it found, its argument and
\*              its outcome
VARIABLES validator, declared, input, outcome, calls, written, first, pc

vars == <<validator, declared, input, outcome, calls, written, first, pc>>

Init ==
  /\ \/ /\ validator \in {v \in Validators \cup Guards : v.f # "record"}
        /\ declared = <<>>
     \/ \E ps \in Declarations :
          /\ validator = record(ObjectLiteral(RefConfig, ps))
          /\ declared = [i \in 1..Len(ps) |-> ps[i].n]
  /\ input = Undefined
  /\ outcome = Undefined
  /\ calls = <<>>
  /\ written = {}
  /\ first = <<>>
  /\ pc = "ready"

\* One invocation of the function on x.
Invoke(x) ==
  LET run == Run(validator, x)
  IN  /\ input' = x
      /\ outcome' = run.r
      /\ calls' = run.calls
      /\ written' = WritesOf(validator, x, run)
      /\ validator' = After(validator, x)
      /\ UNCHANGED declared

\* The first invocation, on x.
InvokeFirst(x) ==
  /\ Invoke(x)
  /\ first' = [validator |-> validator, input |-> x, outcome |-> outcome']
  /\ pc' = "done"

\* The caller invokes a validator that record returned.
InvokeRecord ==
  /\ pc = "ready"
  /\ validator.f = "record"
  /\ \E x \in RecordInputs : InvokeFirst(x)

\* The caller invokes a validator that either returned.
InvokeEither ==
  /\ pc = "ready"
  /\ validator.f = "either"
  /\ \E x \in LeafInputs : InvokeFirst(x)

\* The caller invokes a validator that string returned.
InvokeString ==
  /\ pc = "ready"
  /\ validator.f = "string"
  /\ \E x \in LeafInputs : InvokeFirst(x)

\* The caller invokes a validator that number returned.
InvokeNumber ==
  /\ pc = "ready"
  /\ validator.f = "number"
  /\ \E x \in LeafInputs : InvokeFirst(x)

\* The caller invokes a validator that set returned.
InvokeSet ==
  /\ pc = "ready"
  /\ validator.f = "set"
  /\ \E x \in Inputs : InvokeFirst(x)

\* The caller invokes a validator that maybe returned.
InvokeMaybe ==
  /\ pc = "ready"
  /\ validator.f = "maybe"
  /\ \E x \in Inputs : InvokeFirst(x)

\* The caller invokes a validator that listOf returned.
InvokeListOf ==
  /\ pc = "ready"
  /\ validator.f = "listOf"
  /\ \E x \in Inputs : InvokeFirst(x)

\* The caller invokes a validator that setOf returned.
InvokeSetOf ==
  /\ pc = "ready"
  /\ validator.f = "setOf"
  /\ \E x \in Inputs : InvokeFirst(x)

\* The caller invokes a validator that always returned.
InvokeAlways ==
  /\ pc = "ready"
  /\ validator.f = "always"
  /\ \E x \in LeafInputs : InvokeFirst(x)

\* The caller invokes the guard isIterable.
InvokeIsIterable ==
  /\ pc = "ready"
  /\ validator.f = "isIterable"
  /\ \E x \in Inputs : InvokeFirst(x)

\* What a later invocation is given, besides the argument of the first.
OtherInput == Arr(RefCaller, <<Str("a"), Num(1)>>)

\* A caller, the same or another, invokes the function once more: on the
\* argument of the first invocation or on another one.
InvokeAgain ==
  /\ pc \in {"done", "again"}
  /\ \E x \in {first.input, OtherInput} : Invoke(x)
  /\ pc' = "again"
  /\ UNCHANGED first

Next ==
  \/ InvokeRecord
  \/ InvokeEither
  \/ InvokeString
  \/ InvokeNumber
  \/ InvokeSet
  \/ InvokeMaybe
  \/ InvokeListOf
  \/ InvokeSetOf
  \/ InvokeAlways
  \/ InvokeIsIterable
  \/ InvokeAgain

Spec == Init /\ [][Next]_vars

Done == pc \in {"done", "again"}
Returned == Done /\ ~Raised(outcome)

(***************************************************************************)
(* The properties.                                                         *)
(***************************************************************************)
IsNullish(x) == x.k \in {"null", "undefined"}
Names(o) == {o.v[i].n : i \in 1..Len(o.v)}
Members(xs) == {xs[i] : i \in 1..Len(xs)}

\* What the input holds for field f: its own field, or undefined.
FieldOf(x, f) == IF HasOwn(x, f) THEN Own(x, f) ELSE Undefined

\* C1: for every record spec and every plain-object input x, the output's
\* field f is, for each field f the spec declares, spec[f] applied to x[f]
\* when x has its own field f and spec[f] applied to undefined when it has
\* not; so with nested record validators too.
C1_FieldIsValidatorOfOwnField ==
  (Returned /\ validator.f = "record" /\ input.k = "object") =>
    \A i \in 1..Len(validator.spec.v) :
      LET p == validator.spec.v[i]
      IN  /\ HasOwn(outcome, p.n)
          /\ Own(outcome, p.n) = Apply(p.v, FieldOf(input, p.n))

\* C2: the keys of the output of a record validator are exactly the field
\* names the spec declares: no field of the input that the spec does not
\* declare, and every field it declares, also when the input lacks it.
C2_KeysAreTheDeclaredNames ==
  (Returned /\ validator.f = "record") =>
    /\ outcome.k = "object"
    /\ Names(outcome) = Names(validator.spec)
    /\ Len(outcome.v) = Len(validator.spec.v)

\* A record validator was given an object with a field bar the spec does
\* not declare and without the field b the spec declares.
C2_Witness ==
  /\ Returned
  /\ validator.f = "record"
  /\ input.k = "object"
  /\ HasOwn(input, "bar") /\ ~HasOwn(outcome, "bar")
  /\ HasOwn(validator.spec, "b") /\ ~HasOwn(input, "b") /\ HasOwn(outcome, "b")

\* C3: record(spec)(null), record(spec)(undefined) and record(spec)({}) are
\* equal, and in each of them every field is that field's validator applied
\* to undefined.
C3_NullUndefinedEmptyGiveDefaults ==
  (Done /\ validator.f = "record" /\ input \in {Null, Undefined, CallerObject}) =>
    /\ outcome = Apply(validator, Null)
    /\ outcome = Apply(validator, Undefined)
    /\ outcome = Apply(validator, CallerObject)
    /\ outcome.k = "object"
    /\ \A i \in 1..Len(validator.spec.v) :
         LET p == validator.spec.v[i]
         IN  Get(outcome, p.n) = Apply(p.v, Undefined)

\* C4: no invocation of a validator raises, whatever the validator and
\* whatever the input: it returns a value.
C4_NeverRaises == (Done /\ validator \in Validators) => ~Raised(outcome)

\* C5: either(A)(v) is v when v is one of the values of A, by value and
\* without coercion, and A[0] otherwise (also when A[0] is undefined).
C5_MemberOrFirst ==
  (Done /\ validator.f = "either") =>
    \A A \in AllowedLists :
      validator = either(A) =>
        outcome = IF input \in Members(A) THEN input ELSE A[1]

\* The boolean false is no member of ["a", "false"]: the first value is
\* returned.
C5_Witness ==
  /\ Done
  /\ validator = either(<<Str("a"), Str("false")>>)
  /\ input = Bool(FALSE)
  /\ outcome = Str("a")

\* C6: number(d)(v) is v when v is a number, NaN included, and d when it is
\* not; string(d)(v) is v when v is a string and d when it is not; neither
\* converts (a numeric string is no number, a number is no string).
C6_ExactTypeOrDefault ==
  /\ (Done /\ validator.f = "number") =>
       outcome = IF input.k \in {"number", "nan"} THEN input ELSE validator.initial
  /\ (Done /\ validator.f = "string") =>
       outcome = IF input.k = "string" THEN input ELSE validator.initial

\* number(2) was given the numeric string "1" and returned 2.
C6_Witness ==
  /\ Done
  /\ validator = number(Num(2))
  /\ input = Str("1")
  /\ outcome = Num(2)

\* C7: maybe(inner)(v) is undefined, without any call of inner, when v is
\* null or undefined; otherwise it is inner(v), by the one call inner(v).
C7_NullishShortCircuits ==
  (Done /\ validator.f = "maybe") =>
    IF IsNullish(input)
    THEN outcome = Undefined /\ calls = <<>>
    ELSE /\ outcome = Apply(validator.validate, input)
         /\ calls = <<Call(validator.validate, input)>>

\* maybe(listOf(...)) was given null: inner alone would have returned the
\* empty list.
C7_Witness ==
  /\ Done
  /\ validator = maybe(listOf(number(Undefined)))
  /\ input = Null
  /\ outcome = Undefined
  /\ Apply(validator.validate, input) = Arr(RefFresh, <<>>)

C9_SetOfValidatedElements ==
  (Done /\ validator.f = "setOf" /\ IsClosure(validator.valid) /\ IsArray(input)) =>
    /\ outcome.k = "set"
    /\ Members(outcome.v) =
         {Apply(validator.valid, input.v[i]) : i \in 1..Len(input.v)} \ {Undefined}

\* C10: listOf(v) applied to anything that is neither an array nor a set
\* returns an empty array, without a call of v and without raising.
C10_NonSequenceGivesEmptyList ==
  (Done /\ validator.f = "listOf" /\ input.k \notin {"array", "set"}) =>
    /\ outcome = Arr(RefFresh, <<>>)
    /\ calls = <<>>

\* listOf(number(undefined)) was given the string "".
C10_Witness ==
  /\ Done
  /\ validator = listOf(number(Undefined))
  /\ input = Str("")
  /\ outcome = Arr(RefFresh, <<>>)

\* C11: a setOf validator, whatever it was constructed from, returns an
\* empty set and does not raise when its input is not iterable: a plain
\* object, a string, a number (NaN too), a boolean, null or undefined.
C11_NonIterableGivesEmptySet ==
  (Done /\ validator.f = "setOf"
        /\ input.k \in {"object", "string", "number", "nan", "boolean", "null", "undefined"}) =>
    /\ ~Raised(outcome)
    /\ outcome = SetV(RefFresh, <<>>)

\* setOf(number(2)) was given a plain object.
C11_Witness ==
  /\ Done
  /\ validator = setOf(number(Num(2)))
  /\ input = CallerObject
  /\ outcome = SetV(RefFresh, <<>>)

\* C12: for a set s, listOf(v)(s) is the array of v(e) for the members e of
\* s, in insertion order, one element per member.
C12_ListOfSetMembers ==
  (Done /\ validator.f = "listOf" /\ input.k = "set"
        /\ \A i \in 1..Len(input.v) : ~Raised(Apply(validator.cast, input.v[i]))) =>
    /\ outcome.k = "array"
    /\ Len(outcome.v) = Len(input.v)
    /\ \A i \in 1..Len(input.v) : outcome.v[i] = Apply(validator.cast, input.v[i])

\* C13: for an input that is no plain object (an array, a string, a number,
\* NaN, a boolean, null, undefined) a record validator returns what it
\* returns for {}: an array's elements are not read as fields.
C13_NonObjectIsEmptyObject ==
  (Done /\ validator.f = "record"
        /\ input.k \in {"array", "string", "number", "nan", "boolean", "null", "undefined"}) =>
    outcome = Apply(validator, CallerObject)

\* A validator is idempotent when, on every input it returns a value for,
\* it returns that value again when given it.
IdempotenceProbes ==
  {Undefined, Null, Num(1), Str("a"), CallerObject, PartialInner,
   Arr(RefCaller, <<>>), NestedArray, SetV(RefCaller, <<Num(1)>>)}
Idempotent(v) ==
  \A x \in IdempotenceProbes :
    ~Raised(Apply(v, x)) => Apply(v, Apply(v, x)) = Apply(v, x)

\* C14: a record validator whose field validators are idempotent is
\* idempotent: given its own output it returns an equal output.  (Of the
\* field validators all are idempotent but the setOf that was given a Set of
\* allowed values, which turns an array into a set and a set into the empty
\* set.)
C14_RecordIsIdempotent ==
  (Returned /\ validator.f = "record") =>
    \/ Apply(validator, outcome) = outcome
    \/ \E i \in 1..Len(validator.spec.v) : ~Idempotent(validator.spec.v[i].v)

\* A record validator with the idempotent fields b and constructor was given
\* an object that has field b and lacks field constructor, and changed b.
C14_Witness ==
  /\ Returned
  /\ validator = record(ObjectLiteral(RefConfig,
                    <<Prop("b", maybe(string(Str("d")))), Prop("constructor", number(Num(2)))>>))
  /\ input = ObjectLiteral(RefCaller, <<Prop("b", Num(1))>>)
  /\ outcome = Obj(RefFresh, <<Prop("b", Str("d")), Prop("constructor", Num(2))>>)
  /\ Apply(validator, outcome) = outcome

\* C15: isIterable returns true for an array and for a set, and returns
\* false, without raising, for null, undefined, a plain object, a string, a
\* number and a boolean.
C15_IsIterableGuard ==
  (Done /\ validator.f = "isIterable" /\ input.k # "function") =>
    outcome = Bool(input.k \in {"array", "set"})

\* Whether x is of the type a number or a string validator lets through.
OfTypeOf(v, x) ==
  IF v.f = "number" THEN x.k \in {"number", "nan"} ELSE x.k = "string"

C17_DeclarationOrder ==
  (Returned /\ validator.f = "record") =>
    /\ Len(calls) = Len(declared)
    /\ \A i \in 1..Len(calls) : calls[i].callee = Own(validator.spec, declared[i])
    /\ ObjectKeys(outcome) = declared

====
